---- MODULE Spec2Model ----
(***************************************************************************)
(* Model of the autocut job pipeline: the API submits jobs                 *)
(* (api/main.py, api/crud.py), the Celery worker runs process_video_task   *)
(* (worker/tasks.py), which wraps run_processing_pipeline and its cached   *)
(* stages (worker/logic.py).                                               *)
(*                                                                         *)
(* A Python list is modelled by what the code looks at: the transcription  *)
(* segment list by its length, the metadata dict by the length of its      *)
(* "clips" list, a list of clip paths by the sequence of <<job, n>> pairs  *)
(* naming output/<video_id>/<job>/clip_<n>_<title>.mp4.  An Optional value *)
(* is a sequence of length at most one: <<>> is None, <<v>> is v.          *)
(*                                                                         *)
(* The command-line script (main.py) works on output/<video_id>/ itself,   *)
(* the worker on output/<video_id>/_cache/ and output/<video_id>/<job>/:   *)
(* they share no file, and each has a specification of its own (Spec for   *)
(* the API and the worker, FairSpec for the same with workers that keep    *)
(* running, CliSpec for runs of the script).  DirectSpec                   *)
(* applies the tracklist parser and the direct-mode synthesis of main.py   *)
(* to every description of a bounded shape, TimestampSpec applies          *)
(* timestamp_to_seconds to every string of a bounded shape, and RenderSpec *)
(* the body of the render loop of create_video_clips to segments, sources  *)
(* and transcriptions of a bounded shape (times are whole seconds).        *)
(***************************************************************************)
EXTENDS Integers, Sequences, FiniteSets, TLC

\* ---------------------------------------------------------------- bounds
NJobs == 1          \* job records the API may create
MaxDeliveries == 2  \* deliveries of one task message (at-least-once queue)
MaxClips == 2       \* longest "clips" list the SegmentSelector returns
MaxSegs == 1        \* longest segment list the Transcriber returns
NWorkers == 2       \* worker processes of the pool
MaxRuns == 2        \* runs of the command-line script, one after the other
MaxLines == 3       \* lines of a description given to the tracklist parser
MaxFields == 4      \* colon-separated fields of a string given to timestamp_to_seconds
MaxCaptions == 2    \* transcription segments given to the renderer

Workers == 1..NWorkers
JobIds == 1..NJobs
URLS == {"https://youtu.be/AAAAAAAAAAA", "not-a-video-url"}
VideoIds == {"AAAAAAAAAAA"}

None == <<>>
Some(v) == <<v>>

\* ------------------------------------------------------------- variables
VARIABLES
    \* the jobs table (api.models.Job rows)
    nextId,                 \* next primary key the store hands out
    status,                 \* Job.status, "NONE" while the row does not exist
    result_urls,            \* Job.result_urls
    job_youtube_url,        \* Job.youtube_url
    \* the task queue
    pending,                \* rows committed by create_user_job, send_task not yet called
    queue,                  \* task messages {job_id, youtube_url} in the broker
    delivered,              \* how often each job's message was handed to a worker
    \* the filesystem under output/
    fs_video,               \* output/<video_id>/_cache/downloaded_video.mp4
    fs_audio,               \* output/<video_id>/_cache/audio.mp3
    fs_trans,               \* output/<video_id>/_cache/transcription_segments.json
    fs_meta,                \* output/<video_id>/<job_id>/metadata.json
    fs_clip,                \* output/<video_id>/<job_id>/clip_<n>_<title>.mp4
    \* the workers
    pc,                     \* where each worker is in process_video_task
    task,                   \* the frame of process_video_task
    pipeline,               \* the frame of run_processing_pipeline, while it runs
    \* the command-line script (main.py) and its folder output/<video_id>/
    runs,                   \* how often the script has been started
    cli_pc,                 \* where the script is
    cli,                    \* the variables of __main__
    cli_video,              \* output/<video_id>/downloaded_video.mp4
    cli_audio,              \* output/<video_id>/audio.mp3
    cli_trans,              \* output/<video_id>/transcription_segments.json
    cli_meta,               \* output/<video_id>/metadata_<mode>.json
    cli_clip,               \* output/<video_id>/clip_<n>_<title>.mp4
    \* the tracklist parser and the direct-mode synthesis on their own
    syn_pc,                 \* "input", "parsed" or "synthesized"
    description,            \* the text given to parse_timestamps_from_description
    tracklist,              \* what the parser returned
    clips,                  \* the "clips" list synthesized from the tracklist
    \* timestamp_to_seconds and the body of the render loop on their own
    ts_str,                 \* the argument of timestamp_to_seconds, split at ':'
    seconds,                \* how the call ended, None before it
    render_args,            \* the source's duration, clip_info, with_subtitles, segments
    final_clip              \* the clip handed to write_videofile, None before

dbVars == <<nextId, status, result_urls, job_youtube_url>>
queueVars == <<pending, queue, delivered>>
fsVars == <<fs_video, fs_audio, fs_trans, fs_meta, fs_clip>>
workerVars == <<dbVars, queueVars, fsVars, pc, task, pipeline>>
cliFsVars == <<cli_video, cli_audio, cli_trans, cli_meta, cli_clip>>
cliVars == <<runs, cli_pc, cli, cliFsVars>>
synVars == <<syn_pc, description, tracklist, clips>>
funVars == <<ts_str, seconds, render_args, final_clip>>
scriptVars == <<cliVars, synVars, funVars>>
vars == <<workerVars, scriptVars>>

\* ------------------------------------------------------------ data shapes
\* A file is absent, partially written, or complete with a content value.
Absent == [st |-> "absent", val |-> 0]
Partial == [st |-> "partial", val |-> 0]
Complete(v) == [st |-> "complete", val |-> v]

\* os.path.exists(path)
exists(f) == f.st # "absent"

NullPayload == [kind |-> "null", paths |-> <<>>]
PathsPayload(p) == [kind |-> "paths", paths |-> p]
ErrorPayload == [kind |-> "error", paths |-> <<>>]

ClipPath(j, n) == <<j, n>>

\* The frame of process_video_task: its arguments, final_clip_paths, and
\* how it ended (outcome: the returned status, or "escaped" for an exception
\* that left the task).  writes and failedAt are history: the status values
\* this invocation has committed, in order, and the stage whose failure
\* raised the exception the handler is dealing with.
NoTask ==
    [job_id |-> 0, youtube_url |-> "", final_clip_paths |-> <<>>, outcome |-> "none",
     writes |-> <<>>, failedAt |-> "none"]

\* The frame of run_processing_pipeline with what create_video_clips keeps
\* (idx is i + 1 of its enumerate loop).  calls and fullAtStart are history:
\* the external calls made so far in this pipeline call, and whether every
\* artifact of the job was on disk when it started.
NoPipeline ==
    [transcription_segments |-> None, metadata |-> None, idx |-> 0,
     created_clips |-> <<>>, calls |-> {}, fullAtStart |-> FALSE]

\* worker/logic.py get_video_id: the 11-character id, or None
get_video_id(url) ==
    IF url = "https://youtu.be/AAAAAAAAAAA" THEN Some("AAAAAAAAAAA") ELSE None

VideoOf(w) == get_video_id(task[w].youtube_url)[1]
JobOf(w) == task[w].job_id

\* ------------------------------------------------- the tracklist parser
\* A text is modelled by its characters that matter: a title is a sequence
\* of characters, "7" standing for a digit, the others for letters (white
\* space is left out); a timestamp is the sequence of its integer fields.
Digits == {"7"}
RawTitles == {<<"A">>, <<"B">>, <<"C">>, <<"7", "A">>}
Timestamps == {<<0, 0>>, <<1, 40>>, <<0, 4, 10>>}

\* A line of a description: "<title> - <timestamp>" is matched by pattern_end
\* only, "<timestamp> [-] <title>" by pattern_start only, and
\* "<timestamp> - <title> - <timestamp>" by both: pattern_end takes the
\* text before the last " - " for the title and the trailing timestamp,
\* pattern_start the leading timestamp and the rest of the line for the
\* title.  Any other line is matched by neither.
NoMatchLine == [grammar |-> "none", ts |-> <<>>, title |-> <<>>]
Lines ==
    [grammar : {"end", "start"}, ts : Timestamps, title : RawTitles]
        \cup [grammar : {"both"}, ts : Timestamps, title : {<<"A">>}]
        \cup {NoMatchLine}

\* The trailing timestamp of a line both patterns match, "1:30", and the
\* characters of a timestamp that is part of a title.
TrailingTimestamp == <<1, 30>>
TimestampText == <<"7", ":", "7">>

SeqsUpTo(S, n) == UNION {[1..k -> S] : k \in 0..n}
Descriptions == SeqsUpTo(Lines, MaxLines)

\* main.py 38-45 timestamp_to_seconds
timestamp_to_seconds(parts) ==
    IF Len(parts) = 3 THEN parts[1] * 3600 + parts[2] * 60 + parts[3]
    ELSE IF Len(parts) = 2 THEN parts[1] * 60 + parts[2]
    ELSE 0

\* main.py 55: re.sub(r'^\d+\s*[\.\-]?\s*', '', title).strip() removes a
\* leading track number.
RECURSIVE cleaned_title(_)
cleaned_title(title) ==
    IF title # <<>> /\ Head(title) \in Digits THEN cleaned_title(Tail(title)) ELSE title

\* Python's a in b on strings
IsIn(a, b) ==
    \E i \in 0..(Len(b) - Len(a)) : SubSeq(b, i + 1, i + Len(a)) = a

Entry(secs, title) == [start_seconds |-> secs, title |-> title]

\* main.py 51-60: the entries of the lines pattern_end matches, in text order.
RECURSIVE MatchesEnd(_)
MatchesEnd(lines) ==
    IF lines = <<>> THEN <<>>
    ELSE LET l == Head(lines) IN
         (IF l.grammar = "end"
          THEN <<Entry(timestamp_to_seconds(l.ts), cleaned_title(l.title))>>
          ELSE IF l.grammar = "both"
          THEN <<Entry(timestamp_to_seconds(TrailingTimestamp),
                       cleaned_title(TimestampText \o l.title))>>
          ELSE <<>>) \o MatchesEnd(Tail(lines))

\* main.py 62-71: a line pattern_start matches is added unless the title of
\* an entry already in the list occurs in its title.
RECURSIVE MatchesStart(_, _)
MatchesStart(lines, found) ==
    IF lines = <<>> THEN found
    ELSE LET l == Head(lines)
             title == IF l.grammar = "both" THEN l.title \o TimestampText ELSE l.title
         IN
         IF l.grammar \in {"start", "both"}
              /\ ~\E i \in 1..Len(found) : IsIn(found[i].title, title)
         THEN MatchesStart(Tail(lines),
                           Append(found, Entry(timestamp_to_seconds(l.ts), title)))
         ELSE MatchesStart(Tail(lines), found)

\* list.sort(key=start_seconds): stable, entries with equal keys keep their
\* order.
InsertByStart(e, sorted) ==
    LET k == Cardinality({i \in 1..Len(sorted) :
                             sorted[i].start_seconds <= e.start_seconds})
    IN SubSeq(sorted, 1, k) \o <<e>> \o SubSeq(sorted, k + 1, Len(sorted))

RECURSIVE SortByStart(_, _)
SortByStart(todo, sorted) ==
    IF todo = <<>> THEN sorted
    ELSE SortByStart(Tail(todo), InsertByStart(Head(todo), sorted))

\* main.py 47-78 parse_timestamps_from_description
parse_timestamps_from_description(text) ==
    LET found == MatchesStart(text, MatchesEnd(text)) IN
    IF found = <<>> THEN None
    ELSE IF Len(found) >= 2 THEN Some(SortByStart(found, <<>>)) ELSE None

\* Mutant: the last clip gets no fallback length.
DirectClips_NoFallback(tl) ==
    [i \in 1..Len(tl) |->
        [title |-> tl[i].title,
         start_s |-> tl[i].start_seconds,
         end_s |-> IF i + 1 <= Len(tl) THEN tl[i + 1].start_seconds
                   ELSE tl[i].start_seconds]]

\* main.py 272-281: the "clips" list of direct mode (the description field,
\* a text made of the title, is left out).
DirectClips(tl) ==
    [i \in 1..Len(tl) |->
        [title |-> tl[i].title,
         start_s |-> tl[i].start_seconds,
         end_s |-> IF i + 1 <= Len(tl) THEN tl[i + 1].start_seconds
                   ELSE tl[i].start_seconds + 180]]

\* ----------------------------------------- timestamp_to_seconds, the call
\* A string split at ':': a field is the text of an integer, Some(n), or a
\* text int() rejects, None ("", "a").  str.split returns at least one field.
FieldTexts == {None, Some(1), Some(2), Some(3), Some(5)}
TimestampStrings == UNION {[1..k -> FieldTexts] : k \in 1..MaxFields}

\* How a call ends: it returns a value or raises ValueError.
Returned(v) == [raised |-> FALSE, value |-> v]
ValueError == [raised |-> TRUE, value |-> 0]

\* logic.py 37: list(map(int, ts_str.split(':'))), where no field is rejected
IntFields(fields) == [i \in 1..Len(fields) |-> fields[i][1]]

\* ---------------------------------------------- the body of the render loop
\* Times in whole seconds.  A transcription segment is its span (its text
\* plays no part in the selection).
Durations == {20, 500}
ClipStarts == {0, 10}
ClipEnds == {15, 20}
TranscriptSpans == {<<5, 12>>, <<10, 15>>, <<15, 21>>, <<20, 22>>}
TranscriptSegments == {[start |-> t[1], end |-> t[2]] : t \in TranscriptSpans}

RenderArgs ==
    [video_duration : Durations, start_s : ClipStarts, end_s : ClipEnds,
     with_subtitles : BOOLEAN, segments : SeqsUpTo(TranscriptSegments, MaxCaptions)]

NoRender ==
    [video_duration |-> 0, start_s |-> 0, end_s |-> 0, with_subtitles |-> FALSE,
     segments |-> <<>>]

\* logic.py 186
END_BUFFER_SECONDS == 1

Min(a, b) == IF a <= b THEN a ELSE b

\* Mutant: the buffer is added whether captions are on or not.
end_buffered_Always(duration, end_s, with_subtitles) ==
    Min(duration, end_s + END_BUFFER_SECONDS)

\* logic.py 200
end_buffered(duration, end_s, with_subtitles) ==
    Min(duration, end_s + (IF with_subtitles THEN END_BUFFER_SECONDS ELSE 0))

\* logic.py 209
clip_segments(segments, start_s, end_b) ==
    SelectSeq(segments, LAMBDA seg : seg.start >= start_s /\ seg.end <= end_b)

\* logic.py 210-218: a text clip for each selected segment, set_start at
\* start_time and set_duration to end_time - start_time.
subtitle_clips(segments, start_s, end_b) ==
    LET selected == clip_segments(segments, start_s, end_b) IN
    [i \in 1..Len(selected) |->
        LET start_time == selected[i].start - start_s
            end_time == selected[i].end - start_s
        IN [segment |-> selected[i], start |-> start_time,
            duration |-> end_time - start_time]]

\* logic.py 198-219: the clip handed to write_videofile, the subclip from
\* start_s to end_buffered with the text clips laid over it.
FinalClip(a) ==
    LET end_b == end_buffered(a.video_duration, a.end_s, a.with_subtitles) IN
    [start |-> a.start_s,
     end |-> end_b,
     subtitle_clips |-> IF a.with_subtitles /\ a.segments # <<>>
                        THEN subtitle_clips(a.segments, a.start_s, end_b)
                        ELSE <<>>]

\* ---------------------------------------------- the command-line script
\* The presets of the prompts folder: "default", which the worker loads, and
\* "show", which main.py treats as the tracklist mode.
Prompts == {"default", "show"}

\* --context: not given, or a text.
Contexts == {None, Some("intro"), Some("outro")}

\* hashlib.md5(context).hexdigest()[:8]; the two texts have different digests.
Md5Prefix(context) == IF context = "intro" THEN "1a2b3c4d" ELSE "5e6f7a8b"

\* main.py 239
context_hash(additional_context) ==
    IF additional_context # None THEN <<"_", Md5Prefix(additional_context[1])>> ELSE <<>>

\* main.py 240-241: the metadata file is metadata_<metadata_mode>.json
metadata_mode(prompt_key, additional_context) ==
    IF prompt_key = "show" THEN <<"direct">>
    ELSE <<"ai_", prompt_key>> \o context_hash(additional_context)

MetadataNames == {metadata_mode(p, c) : p \in Prompts, c \in Contexts}

\* Texts the script meets as the video's description or as the setlist
\* file: one without a timestamp, one with a tracklist of two songs.
NoTimestamps == <<NoMatchLine>>
TwoSongs ==
    <<[grammar |-> "start", ts |-> <<0, 0>>, title |-> <<"A">>],
      [grammar |-> "start", ts |-> <<1, 40>>, title |-> <<"B">>]>>
CliTexts == {NoTimestamps, TwoSongs}

\* --setlist: not given, or a path at which there is no file, or a file.
NoSuchFile == [found |-> FALSE, text |-> <<>>]
SetlistFile(t) == [found |-> TRUE, text |-> t]
Setlists == {None, Some(NoSuchFile)} \cup {Some(SetlistFile(t)) : t \in CliTexts}

\* The content of a metadata file: the "clips" list and, as history, how it
\* was made: by direct mode, or by the model under a prompt and a context.
NoMetadata == [src |-> "none", prompt |-> "", context |-> None, clips |-> <<>>]
DirectMetadata(tl) ==
    [src |-> "direct", prompt |-> "", context |-> None, clips |-> DirectClips(tl)]
AiTitle == <<"T">>
AiMetadata(prompt_key, additional_context, n) ==
    [src |-> "ai", prompt |-> prompt_key, context |-> additional_context,
     clips |-> [i \in 1..n |-> [title |-> AiTitle, start_s |-> 10 * i, end_s |-> 10 * i + 5]]]

MetaAbsent == [st |-> "absent", val |-> NoMetadata]
MetaPartial == [st |-> "partial", val |-> NoMetadata]
MetaComplete(m) == [st |-> "complete", val |-> m]

\* main.py 35-36 sanitize_filename: the characters a file name keeps
FilenameChars == {"7", "A", "B", "C", "T"}
sanitize_filename(name) == SelectSeq(name, LAMBDA c : c \in FilenameChars)

\* main.py 169: clip_<i+1>_<sanitized_title>.mp4 in the project folder
CliClipName(n, clip_info) == <<n, sanitize_filename(clip_info.title)>>
CliClipNames == (1..MaxClips) \X {<<"A">>, <<"B">>, AiTitle}

\* What a clip file holds: the sub-clip alone, or with the captions on it.
Plain == 0
Captioned == 1

\* The variables of __main__ (idx is i + 1 of the loop of
\* create_video_clips); calls and failed are history: the external calls
\* made in this run, and the stage whose failure ended it.
NoCli ==
    [prompt_key |-> "", additional_context |-> None, generate_with_subtitles |-> FALSE,
     setlist |-> None, video_description |-> <<>>, tracklist |-> None,
     metadata |-> None, audio_file |-> None, transcription_segments_for_subs |-> None,
     idx |-> 0, run_successful |-> FALSE, calls |-> {}, failed |-> "none"]

metadata_path == metadata_mode(cli.prompt_key, cli.additional_context)

\* ------------------------------------------------------------------ Init
\* An empty jobs table and queue, an empty output folder, idle workers.
WorkerInit ==
    /\ nextId = 1
    /\ status = [j \in JobIds |-> "NONE"]
    /\ result_urls = [j \in JobIds |-> NullPayload]
    /\ job_youtube_url = [j \in JobIds |-> ""]
    /\ pending = {}
    /\ queue = {}
    /\ delivered = [j \in JobIds |-> 0]
    /\ fs_video = [v \in VideoIds |-> Absent]
    /\ fs_audio = [v \in VideoIds |-> Absent]
    /\ fs_trans = [v \in VideoIds |-> Absent]
    /\ fs_meta = [j \in JobIds |-> Absent]
    /\ fs_clip = [j \in JobIds |-> [n \in 1..MaxClips |-> Absent]]
    /\ pc = [w \in Workers |-> "idle"]
    /\ task = [w \in Workers |-> NoTask]
    /\ pipeline = [w \in Workers |-> NoPipeline]

\* The script has not been run and output/<video_id>/ is empty.
CliInit ==
    /\ runs = 0
    /\ cli_pc = "idle"
    /\ cli = NoCli
    /\ cli_video = Absent
    /\ cli_audio = Absent
    /\ cli_trans = Absent
    /\ cli_meta = [m \in MetadataNames |-> MetaAbsent]
    /\ cli_clip = [c \in CliClipNames |-> Absent]

\* The parser is not under study.
SynIdle ==
    /\ syn_pc = "idle"
    /\ description = <<>>
    /\ tracklist = None
    /\ clips = <<>>

\* No call of timestamp_to_seconds or of the render loop is under study.
TimestampIdle ==
    /\ ts_str = <<>>
    /\ seconds = None

RenderIdle ==
    /\ render_args = NoRender
    /\ final_clip = None

Init == WorkerInit /\ CliInit /\ SynIdle /\ TimestampIdle /\ RenderIdle

\* ------------------------------------------------------------------- API
\* The status a new Job row gets (the Job model is not among the sources;
\* the value is the one the specification gives).
DefaultStatus == "QUEUED"

\* api/crud.py create_user_job: insert the row and commit it.
create_user_job(u) ==
    /\ nextId <= NJobs
    /\ status' = [status EXCEPT ![nextId] = DefaultStatus]
    /\ job_youtube_url' = [job_youtube_url EXCEPT ![nextId] = u]
    /\ pending' = pending \cup {nextId}
    /\ nextId' = nextId + 1
    /\ UNCHANGED <<result_urls, queue, delivered, fsVars, pc, task, pipeline, scriptVars>>

\* Mutant: the task is sent before the row is committed, with the id the
\* row is expected to get.
send_task_BeforeCommit(j) ==
    /\ j = nextId
    /\ j \in JobIds
    /\ j \notin {m.job_id : m \in queue}
    /\ queue' = queue \cup {[job_id |-> j, youtube_url |-> "https://youtu.be/AAAAAAAAAAA"]}
    /\ UNCHANGED <<dbVars, pending, delivered, fsVars, pc, task, pipeline, scriptVars>>

\* api/main.py create_job_for_user: celery.send_task with the row's id and
\* URL; if the broker cannot be reached the call raises and the request ends
\* with the row committed and no message sent.
send_task(j) ==
    /\ j \in pending
    /\ pending' = pending \ {j}
    /\ \/ queue' = queue \cup {[job_id |-> j, youtube_url |-> job_youtube_url[j]]}
       \/ queue' = queue
    /\ UNCHANGED <<dbVars, delivered, fsVars, pc, task, pipeline, scriptVars>>

\* ---------------------------------------------------------------- worker
Goto(w, l) == pc' = [pc EXCEPT ![w] = l]

\* An exception leaves the try block of process_video_task; the frame of
\* run_processing_pipeline, if any, is gone.
Raise(w, stage) ==
    /\ Goto(w, "except")
    /\ task' = [task EXCEPT ![w].failedAt = stage]
    /\ pipeline' = [pipeline EXCEPT ![w] = NoPipeline]

\* An external call of the pipeline is recorded.
Called(w, c) == [pipeline[w] EXCEPT !.calls = @ \cup {c}]

\* The broker hands a message to an idle worker (the workers are
\* interchangeable: the first idle one takes it); the message stays
\* deliverable (at-least-once) until MaxDeliveries is reached.
Deliver(w, m) ==
    /\ pc[w] = "idle"
    /\ \A o \in Workers : o < w => pc[o] # "idle"
    /\ m \in queue
    /\ delivered[m.job_id] < MaxDeliveries
    /\ delivered' = [delivered EXCEPT ![m.job_id] = @ + 1]
    /\ task' = [task EXCEPT ![w] = [NoTask EXCEPT !.job_id = m.job_id,
                                                  !.youtube_url = m.youtube_url]]
    /\ Goto(w, "set_processing")
    /\ UNCHANGED <<dbVars, pending, queue, fsVars, pipeline, scriptVars>>

\* Mutant: the pipeline is started without the PROCESSING write.
SetProcessingOk_NoWrite(w) ==
    /\ pc[w] = "set_processing"
    /\ Goto(w, "run_processing_pipeline")
    /\ UNCHANGED <<dbVars, queueVars, fsVars, task, pipeline, scriptVars>>

\* tasks.py 27-30: UPDATE ... SET status = 'PROCESSING'; commit.
SetProcessingOk(w) ==
    /\ pc[w] = "set_processing"
    /\ status' = [status EXCEPT ![JobOf(w)] = "PROCESSING"]
    /\ task' = [task EXCEPT ![w].writes = Append(@, "PROCESSING")]
    /\ Goto(w, "run_processing_pipeline")
    /\ UNCHANGED <<nextId, result_urls, job_youtube_url, queueVars, fsVars, pipeline, scriptVars>>

SetProcessingRaise(w) ==
    /\ pc[w] = "set_processing"
    /\ Raise(w, "status_write")
    /\ UNCHANGED <<dbVars, queueVars, fsVars, scriptVars>>

SetProcessing(w) == SetProcessingOk(w) \/ SetProcessingRaise(w)

\* ---------------------------------------------- run_processing_pipeline
\* Every artifact the pipeline looks for is on disk and complete: the video,
\* the audio, a transcription with segments, the job's metadata with clips
\* and each clip file the metadata lists.
FullyPopulated(v, j) ==
    /\ fs_video[v].st = "complete"
    /\ fs_audio[v].st = "complete"
    /\ fs_trans[v].st = "complete" /\ fs_trans[v].val > 0
    /\ fs_meta[j].st = "complete" /\ fs_meta[j].val > 0
    /\ \A n \in 1..fs_meta[j].val : fs_clip[j][n].st = "complete"

\* logic.py 249-267: get_video_id, makedirs, load the "default" prompt.
\* The prompts folder belongs to the deployment: the default preset is
\* there or it is not.
PipelineStart(w) ==
    /\ pc[w] = "run_processing_pipeline"
    /\ \/ Raise(w, "start")
       \/ /\ get_video_id(task[w].youtube_url) # None
          /\ Goto(w, "download_video")
          /\ pipeline' = [pipeline EXCEPT ![w] =
                  [NoPipeline EXCEPT !.fullAtStart = FullyPopulated(VideoOf(w), JobOf(w))]]
          /\ UNCHANGED task
    /\ UNCHANGED <<dbVars, queueVars, fsVars, scriptVars>>

\* logic.py 85-93: ydl.extract_info(url, download=False), then the
\* existence check of the target path.
DownloadVideoInfo(w) ==
    /\ pc[w] = "download_video"
    /\ \/ Raise(w, "download")
       \/ /\ pipeline' = [pipeline EXCEPT ![w] = Called(w, "extract_info")]
          /\ IF exists(fs_video[VideoOf(w)])
             THEN Goto(w, "extract_audio")
             ELSE Goto(w, "downloading")
          /\ UNCHANGED task
    /\ UNCHANGED <<dbVars, queueVars, fsVars, scriptVars>>

\* Mutant: a failed download is tried again from the start of the stage.
DownloadVideo_Retry(w) ==
    /\ pc[w] = "downloading"
    /\ \/ /\ Goto(w, "download_video")
          /\ UNCHANGED <<fs_video, task, pipeline>>
       \/ /\ fs_video' = [fs_video EXCEPT ![VideoOf(w)] = Complete(1)]
          /\ pipeline' = [pipeline EXCEPT ![w] = Called(w, "download")]
          /\ Goto(w, "extract_audio")
          /\ UNCHANGED task
    /\ UNCHANGED <<dbVars, queueVars, fs_audio, fs_trans, fs_meta, fs_clip, scriptVars>>

\* logic.py 97-107: ydl.download([url]).  yt-dlp assembles the file under
\* temporary names and moves it to the target path when it is finished.
DownloadVideo(w) ==
    /\ pc[w] = "downloading"
    /\ \/ /\ Raise(w, "download")
          /\ UNCHANGED fs_video
       \/ /\ fs_video' = [fs_video EXCEPT ![VideoOf(w)] = Complete(1)]
          /\ pipeline' = [pipeline EXCEPT ![w] = Called(w, "download")]
          /\ Goto(w, "extract_audio")
          /\ UNCHANGED task
    /\ UNCHANGED <<dbVars, queueVars, fs_audio, fs_trans, fs_meta, fs_clip, scriptVars>>

\* The other invocations that work on the same video, on the same job.
SameVideo(w) ==
    {o \in Workers \ {w} :
        get_video_id(task[o].youtube_url) = get_video_id(task[w].youtube_url)}
SameJob(w) == {o \in Workers \ {w} : JobOf(o) = JobOf(w)}

\* Another invocation has the file open for writing.
OtherWriter(l, others) == \E o \in others : pc[o] = l

\* What a finished write leaves at the path: the writer's content, unless
\* another writer still has the file open, when either may show.
Written(v, racing) == IF racing THEN {Complete(v), Partial} ELSE {Complete(v)}

\* logic.py 117-119: the cache check of extract_audio.
ExtractAudioCheck(w) ==
    /\ pc[w] = "extract_audio"
    /\ IF exists(fs_audio[VideoOf(w)])
       THEN Goto(w, "get_transcription_segments")
       ELSE Goto(w, "audio_open")
    /\ UNCHANGED <<dbVars, queueVars, fsVars, task, pipeline, scriptVars>>

\* Mutant: the None that extract_audio returns is not looked at.
ExtractAudioBegin_Continue(w) ==
    /\ pc[w] = "audio_open"
    /\ \/ /\ Goto(w, "get_transcription_segments")
          /\ UNCHANGED <<fs_audio, task, pipeline>>
       \/ /\ fs_audio' = [fs_audio EXCEPT ![VideoOf(w)] = Partial]
          /\ pipeline' = [pipeline EXCEPT ![w] = Called(w, "extract_audio")]
          /\ Goto(w, "audio_writing")
          /\ UNCHANGED task
    /\ UNCHANGED <<dbVars, queueVars, fs_video, fs_trans, fs_meta, fs_clip, scriptVars>>

\* logic.py 122-123: open the video; write_audiofile starts writing audio_path.
ExtractAudioBegin(w) ==
    /\ pc[w] = "audio_open"
    /\ \/ /\ Raise(w, "audio")
          /\ UNCHANGED fs_audio
       \/ /\ fs_audio' = [fs_audio EXCEPT ![VideoOf(w)] = Partial]
          /\ pipeline' = [pipeline EXCEPT ![w] = Called(w, "extract_audio")]
          /\ Goto(w, "audio_writing")
          /\ UNCHANGED task
    /\ UNCHANGED <<dbVars, queueVars, fs_video, fs_trans, fs_meta, fs_clip, scriptVars>>

\* logic.py 123-128: write_audiofile finishes, or raises and None is returned.
ExtractAudioEnd(w) ==
    /\ pc[w] = "audio_writing"
    /\ \/ /\ Raise(w, "audio")
          /\ UNCHANGED fs_audio
       \/ /\ \E f \in Written(1, OtherWriter("audio_writing", SameVideo(w))) :
                fs_audio' = [fs_audio EXCEPT ![VideoOf(w)] = f]
          /\ Goto(w, "get_transcription_segments")
          /\ UNCHANGED <<task, pipeline>>
    /\ UNCHANGED <<dbVars, queueVars, fs_video, fs_trans, fs_meta, fs_clip, scriptVars>>

\* Mutant: the cache check waits while another invocation is producing the
\* transcription of the same video.
GetTranscriptionCheck_Locked(w) ==
    /\ pc[w] = "get_transcription_segments"
    /\ ~\E o \in SameVideo(w) : pc[o] \in {"transcribe", "transcription_writing"}
    /\ LET f == fs_trans[VideoOf(w)] IN
       \/ /\ f.st = "absent"
          /\ Goto(w, "transcribe")
          /\ UNCHANGED <<task, pipeline>>
       \/ /\ f.st = "partial"
          /\ Raise(w, "transcription_load")
       \/ /\ f.st = "complete"
          /\ IF f.val = 0
             THEN Raise(w, "transcription_empty")
             ELSE /\ pipeline' = [pipeline EXCEPT
                                    ![w].transcription_segments = Some(f.val)]
                  /\ Goto(w, "get_or_create_metadata_from_ai")
                  /\ UNCHANGED task
    /\ UNCHANGED <<dbVars, queueVars, fsVars, scriptVars>>

\* logic.py 133-136: the cache check of get_transcription_segments; a hit is
\* json.load of the file, outside the try block.  logic.py 276: an empty or
\* missing list is fatal.
GetTranscriptionCheck(w) ==
    /\ pc[w] = "get_transcription_segments"
    /\ LET f == fs_trans[VideoOf(w)] IN
       \/ /\ f.st = "absent"
          /\ Goto(w, "transcribe")
          /\ UNCHANGED <<task, pipeline>>
       \/ /\ f.st = "partial"
          /\ Raise(w, "transcription_load")
       \/ /\ f.st = "complete"
          /\ IF f.val = 0
             THEN Raise(w, "transcription_empty")
             ELSE /\ pipeline' = [pipeline EXCEPT
                                    ![w].transcription_segments = Some(f.val)]
                  /\ Goto(w, "get_or_create_metadata_from_ai")
                  /\ UNCHANGED task
    /\ UNCHANGED <<dbVars, queueVars, fsVars, scriptVars>>

\* logic.py 139-143: whisper transcribes; open(transcription_path, 'w')
\* creates or truncates the file.
Transcribe(w) ==
    /\ pc[w] = "transcribe"
    /\ \/ /\ Raise(w, "transcription")
          /\ UNCHANGED fs_trans
       \/ \E n \in 0..MaxSegs :
          /\ pipeline' = [pipeline EXCEPT
                            ![w] = [Called(w, "transcribe") EXCEPT
                                      !.transcription_segments = Some(n)]]
          /\ fs_trans' = [fs_trans EXCEPT ![VideoOf(w)] = Partial]
          /\ Goto(w, "transcription_writing")
          /\ UNCHANGED task
    /\ UNCHANGED <<dbVars, queueVars, fs_video, fs_audio, fs_meta, fs_clip, scriptVars>>

\* logic.py 144-148: json.dump finishes and the segments are returned, or it
\* raises and None is returned.  logic.py 276: an empty list is fatal.
TranscriptionWriteEnd(w) ==
    /\ pc[w] = "transcription_writing"
    /\ LET segments == pipeline[w].transcription_segments[1] IN
       \/ /\ Raise(w, "transcription")
          /\ UNCHANGED fs_trans
       \/ /\ \E f \in Written(segments,
                              OtherWriter("transcription_writing", SameVideo(w))) :
                fs_trans' = [fs_trans EXCEPT ![VideoOf(w)] = f]
          /\ IF segments = 0
             THEN Raise(w, "transcription_empty")
             ELSE Goto(w, "get_or_create_metadata_from_ai") /\ UNCHANGED <<task, pipeline>>
    /\ UNCHANGED <<dbVars, queueVars, fs_video, fs_audio, fs_meta, fs_clip, scriptVars>>

\* Mutant: the cache check is skipped and the model is asked every time.
GetMetadataCheck_NoCache(w) ==
    /\ pc[w] = "get_or_create_metadata_from_ai"
    /\ Goto(w, "generate_content")
    /\ UNCHANGED <<dbVars, queueVars, fsVars, task, pipeline, scriptVars>>

\* logic.py 151-154: the cache check of get_or_create_metadata_from_ai; a hit
\* is json.load of the file, outside the try block.
GetMetadataCheck(w) ==
    /\ pc[w] = "get_or_create_metadata_from_ai"
    /\ LET f == fs_meta[JobOf(w)] IN
       \/ /\ f.st = "absent"
          /\ Goto(w, "generate_content")
          /\ UNCHANGED <<task, pipeline>>
       \/ /\ f.st = "partial"
          /\ Raise(w, "metadata_load")
       \/ /\ f.st = "complete"
          /\ pipeline' = [pipeline EXCEPT ![w].metadata = Some(f.val)]
          /\ Goto(w, "create_video_clips")
          /\ UNCHANGED task
    /\ UNCHANGED <<dbVars, queueVars, fsVars, scriptVars>>

\* logic.py 161-169: the model answers, the answer decodes to a dict, and
\* open(metadata_path, 'w') creates or truncates the file.
GenerateContent(w) ==
    /\ pc[w] = "generate_content"
    /\ \/ /\ Raise(w, "metadata")
          /\ UNCHANGED fs_meta
       \/ \E n \in 0..MaxClips :
          /\ pipeline' = [pipeline EXCEPT
                            ![w] = [Called(w, "generate_content") EXCEPT
                                      !.metadata = Some(n)]]
          /\ fs_meta' = [fs_meta EXCEPT ![JobOf(w)] = Partial]
          /\ Goto(w, "metadata_writing")
          /\ UNCHANGED task
    /\ UNCHANGED <<dbVars, queueVars, fs_video, fs_audio, fs_trans, fs_clip, scriptVars>>

\* logic.py 170-174: json.dump finishes and the metadata is returned, or it
\* raises and None is returned.
MetadataWriteEnd(w) ==
    /\ pc[w] = "metadata_writing"
    /\ \/ /\ Raise(w, "metadata")
          /\ UNCHANGED fs_meta
       \/ /\ \E f \in Written(pipeline[w].metadata[1],
                              OtherWriter("metadata_writing", SameJob(w))) :
                fs_meta' = [fs_meta EXCEPT ![JobOf(w)] = f]
          /\ Goto(w, "create_video_clips")
          /\ UNCHANGED <<task, pipeline>>
    /\ UNCHANGED <<dbVars, queueVars, fs_video, fs_audio, fs_trans, fs_clip, scriptVars>>

\* ----------------------------------------------------- create_video_clips
\* Mutant: the handler returns the clips created so far.
ClipsReturn_Partial(w, paths, stage) ==
    /\ task' = [task EXCEPT ![w].final_clip_paths = pipeline[w].created_clips,
                            ![w].failedAt = stage]
    /\ Goto(w, "clips_returned")

\* The call returns the list (logic.py 225) or, after an exception inside
\* its try block, the empty list (logic.py 226-230); the pipeline has the
\* value in final_clip_paths (logic.py 283).
ClipsReturn(w, paths, stage) ==
    /\ task' = [task EXCEPT ![w].final_clip_paths = paths, ![w].failedAt = stage]
    /\ Goto(w, "clips_returned")

\* logic.py 180-188: the metadata written by the pipeline always is a dict
\* with a "clips" key; the source video is opened.
CreateVideoClipsStart(w) ==
    /\ pc[w] = "create_video_clips"
    /\ \/ /\ ClipsReturn(w, <<>>, "render")
          /\ UNCHANGED pipeline
       \/ /\ pipeline' = [pipeline EXCEPT ![w].idx = 1, ![w].created_clips = <<>>]
          /\ Goto(w, "clip_loop")
          /\ UNCHANGED task
    /\ UNCHANGED <<dbVars, queueVars, fsVars, scriptVars>>

\* Mutant: a clip is encoded whether its file exists or not.
ClipLoop_AlwaysEncode(w) ==
    /\ pc[w] = "clip_loop"
    /\ LET j == JobOf(w)
           n == pipeline[w].idx
       IN
       IF n > pipeline[w].metadata[1]
       THEN /\ ClipsReturn(w, pipeline[w].created_clips, "none")
            /\ UNCHANGED <<fs_clip, pipeline>>
       ELSE \/ /\ ClipsReturn(w, <<>>, "render")
               /\ UNCHANGED <<fs_clip, pipeline>>
            \/ /\ fs_clip' = [fs_clip EXCEPT ![j][n] = Partial]
               /\ pipeline' = [pipeline EXCEPT ![w] = Called(w, "write_videofile")]
               /\ Goto(w, "clip_writing")
               /\ UNCHANGED task
    /\ UNCHANGED <<dbVars, queueVars, fs_video, fs_audio, fs_trans, fs_meta, scriptVars>>

\* logic.py 189-221: one iteration of the loop up to the start of
\* write_videofile, or the end of the loop (logic.py 224-225).
ClipLoop(w) ==
    /\ pc[w] = "clip_loop"
    /\ LET j == JobOf(w)
           n == pipeline[w].idx
       IN
       IF n > pipeline[w].metadata[1]
       THEN /\ ClipsReturn(w, pipeline[w].created_clips, "none")
            /\ UNCHANGED <<fs_clip, pipeline>>
       ELSE \/ /\ ClipsReturn(w, <<>>, "render")
               /\ UNCHANGED <<fs_clip, pipeline>>
            \/ /\ exists(fs_clip[j][n])
               /\ pipeline' = [pipeline EXCEPT
                                 ![w].created_clips = Append(@, ClipPath(j, n)),
                                 ![w].idx = n + 1]
               /\ UNCHANGED <<pc, fs_clip, task>>
            \/ /\ ~exists(fs_clip[j][n])
               /\ fs_clip' = [fs_clip EXCEPT ![j][n] = Partial]
               /\ pipeline' = [pipeline EXCEPT ![w] = Called(w, "write_videofile")]
               /\ Goto(w, "clip_writing")
               /\ UNCHANGED task
    /\ UNCHANGED <<dbVars, queueVars, fs_video, fs_audio, fs_trans, fs_meta, scriptVars>>

\* logic.py 221-222: write_videofile finishes and the path is appended, or
\* it raises.
ClipWriteEnd(w) ==
    /\ pc[w] = "clip_writing"
    /\ LET j == JobOf(w)
           n == pipeline[w].idx
       IN
       \/ /\ ClipsReturn(w, <<>>, "render")
          /\ UNCHANGED <<fs_clip, pipeline>>
       \/ /\ \E f \in Written(1, \E o \in SameJob(w) :
                                     pc[o] = "clip_writing" /\ pipeline[o].idx = n) :
                fs_clip' = [fs_clip EXCEPT ![j][n] = f]
          /\ pipeline' = [pipeline EXCEPT
                            ![w].created_clips = Append(@, ClipPath(j, n)),
                            ![w].idx = n + 1]
          /\ Goto(w, "clip_loop")
          /\ UNCHANGED task
    /\ UNCHANGED <<dbVars, queueVars, fs_video, fs_audio, fs_trans, fs_meta, scriptVars>>

\* logic.py 288-292: an empty list is fatal, anything else is returned.
PipelineReturn(w) ==
    /\ pc[w] = "clips_returned"
    /\ IF task[w].final_clip_paths = <<>>
       THEN Raise(w, IF task[w].failedAt = "none" THEN "no_clips" ELSE task[w].failedAt)
       ELSE /\ Goto(w, "set_completed")
            /\ pipeline' = [pipeline EXCEPT ![w] = NoPipeline]
            /\ UNCHANGED task
    /\ UNCHANGED <<dbVars, queueVars, fsVars, scriptVars>>

\* ------------------------------------------- process_video_task, the end
\* Mutant: the COMPLETED write leaves result_urls as it was.
SetCompletedOk_NoResult(w) ==
    /\ pc[w] = "set_completed"
    /\ status' = [status EXCEPT ![JobOf(w)] = "COMPLETED"]
    /\ task' = [task EXCEPT ![w].writes = Append(@, "COMPLETED"),
                            ![w].outcome = "Completed"]
    /\ Goto(w, "done")
    /\ UNCHANGED <<nextId, result_urls, job_youtube_url, queueVars, fsVars, pipeline, scriptVars>>

\* tasks.py 35-43: UPDATE ... SET status = 'COMPLETED', result_urls = the
\* list; commit; return.
SetCompletedOk(w) ==
    /\ pc[w] = "set_completed"
    /\ status' = [status EXCEPT ![JobOf(w)] = "COMPLETED"]
    /\ result_urls' = [result_urls EXCEPT
                         ![JobOf(w)] = PathsPayload(task[w].final_clip_paths)]
    /\ task' = [task EXCEPT ![w].writes = Append(@, "COMPLETED"),
                            ![w].outcome = "Completed"]
    /\ Goto(w, "done")
    /\ UNCHANGED <<nextId, job_youtube_url, queueVars, fsVars, pipeline, scriptVars>>

SetCompletedRaise(w) ==
    /\ pc[w] = "set_completed"
    /\ Raise(w, "status_write")
    /\ UNCHANGED <<dbVars, queueVars, fsVars, scriptVars>>

SetCompleted(w) == SetCompletedOk(w) \/ SetCompletedRaise(w)

\* tasks.py 45-60: the handler writes FAILED with the error message, commits
\* and returns.
ExceptOk(w) ==
    /\ pc[w] = "except"
    /\ status' = [status EXCEPT ![JobOf(w)] = "FAILED"]
    /\ result_urls' = [result_urls EXCEPT ![JobOf(w)] = ErrorPayload]
    /\ task' = [task EXCEPT ![w].writes = Append(@, "FAILED"),
                            ![w].outcome = "Failed"]
    /\ Goto(w, "done")
    /\ UNCHANGED <<nextId, job_youtube_url, queueVars, fsVars, pipeline, scriptVars>>

\* tasks.py 51-57: the handler's own execute or commit raises; nothing
\* catches it and it leaves the task.
ExceptRaise(w) ==
    /\ pc[w] = "except"
    /\ task' = [task EXCEPT ![w].outcome = "escaped"]
    /\ Goto(w, "done")
    /\ UNCHANGED <<dbVars, queueVars, fsVars, pipeline, scriptVars>>

Except(w) == ExceptOk(w) \/ ExceptRaise(w)

\* tasks.py 61-62: db.close(); the worker is free for the next message.
Finish(w) ==
    /\ pc[w] = "done"
    /\ Goto(w, "idle")
    /\ task' = [task EXCEPT ![w] = NoTask]
    /\ UNCHANGED <<dbVars, queueVars, fsVars, pipeline, scriptVars>>

Next ==
    \/ \E u \in URLS : create_user_job(u)
    \/ \E j \in JobIds : send_task(j)
    \/ \E w \in Workers : \E m \in queue : Deliver(w, m)
    \/ \E w \in Workers : SetProcessing(w)
    \/ \E w \in Workers : PipelineStart(w)
    \/ \E w \in Workers : DownloadVideoInfo(w)
    \/ \E w \in Workers : DownloadVideo(w)
    \/ \E w \in Workers : ExtractAudioCheck(w)
    \/ \E w \in Workers : ExtractAudioBegin(w)
    \/ \E w \in Workers : ExtractAudioEnd(w)
    \/ \E w \in Workers : GetTranscriptionCheck(w)
    \/ \E w \in Workers : Transcribe(w)
    \/ \E w \in Workers : TranscriptionWriteEnd(w)
    \/ \E w \in Workers : GetMetadataCheck(w)
    \/ \E w \in Workers : GenerateContent(w)
    \/ \E w \in Workers : MetadataWriteEnd(w)
    \/ \E w \in Workers : CreateVideoClipsStart(w)
    \/ \E w \in Workers : ClipLoop(w)
    \/ \E w \in Workers : ClipWriteEnd(w)
    \/ \E w \in Workers : PipelineReturn(w)
    \/ \E w \in Workers : SetCompleted(w)
    \/ \E w \in Workers : Except(w)
    \/ \E w \in Workers : Finish(w)

Spec == Init /\ [][Next]_vars

\* The steps of the worker process w once it has taken a message.
WorkerStep(w) ==
    \/ SetProcessing(w)
    \/ PipelineStart(w)
    \/ DownloadVideoInfo(w)
    \/ DownloadVideo(w)
    \/ ExtractAudioCheck(w)
    \/ ExtractAudioBegin(w)
    \/ ExtractAudioEnd(w)
    \/ GetTranscriptionCheck(w)
    \/ Transcribe(w)
    \/ TranscriptionWriteEnd(w)
    \/ GetMetadataCheck(w)
    \/ GenerateContent(w)
    \/ MetadataWriteEnd(w)
    \/ CreateVideoClipsStart(w)
    \/ ClipLoop(w)
    \/ ClipWriteEnd(w)
    \/ PipelineReturn(w)
    \/ SetCompleted(w)
    \/ Except(w)
    \/ Finish(w)

\* A worker process that has taken a message keeps running: it is not
\* killed, and each call it makes returns or raises (celery_app.py sets no
\* time limit, the prefork pool runs each process independently).  Which of
\* the two a call does is not the worker's choice.
WorkerFairness == \A w \in Workers : WF_vars(WorkerStep(w))

FairSpec == Init /\ [][Next]_vars /\ WorkerFairness

\* ------------------------------------------------------ main.py __main__
\* An external call of the run is recorded.
CliCalled(c) == [cli EXCEPT !.calls = @ \cup {c}]

\* main.py 311-313: an exception ends the try block; the handler prints it.
Abort(frame, stage) ==
    /\ cli' = [frame EXCEPT !.failed = stage]
    /\ cli_pc' = "finally"

\* main.py 298-301: the metadata dict has keys, so it is true; captions need
\* the audio and the transcription.
AfterMetadata ==
    IF cli.generate_with_subtitles THEN "subs_extract_audio" ELSE "create_video_clips"

\* main.py 210-244: the arguments are parsed (--prompt is one of the
\* presets) and the paths are made; the URL is that of the video.
CliStart(p, c, subs, sl) ==
    /\ cli_pc = "idle"
    /\ runs < MaxRuns
    /\ runs' = runs + 1
    /\ cli' = [NoCli EXCEPT !.prompt_key = p, !.additional_context = c,
                            !.generate_with_subtitles = subs, !.setlist = sl]
    /\ cli_pc' = "download_video"
    /\ UNCHANGED <<workerVars, cliFsVars, synVars, funVars>>

\* main.py 82-88: ydl.extract_info(url, download=False) gives the title and
\* the description, then the existence check of the target path.
CliDownloadVideoInfo ==
    /\ cli_pc = "download_video"
    /\ \/ Abort(CliCalled("extract_info"), "download")
       \/ \E d \in CliTexts :
          /\ cli' = [CliCalled("extract_info") EXCEPT !.video_description = d]
          /\ cli_pc' = IF exists(cli_video) THEN "metadata_check" ELSE "downloading"
    /\ UNCHANGED <<workerVars, runs, cliFsVars, synVars, funVars>>

\* main.py 89-98: ydl.download([url]); yt-dlp moves the finished file to the
\* target path.
CliDownloadVideo ==
    /\ cli_pc = "downloading"
    /\ \/ /\ Abort(CliCalled("download"), "download")
          /\ UNCHANGED cli_video
       \/ /\ cli_video' = Complete(1)
          /\ cli' = CliCalled("download")
          /\ cli_pc' = "metadata_check"
    /\ UNCHANGED <<workerVars, runs, cli_audio, cli_trans, cli_meta, cli_clip, synVars, funVars>>

\* main.py 249-254: the metadata file of this prompt and context is loaded
\* if it is there.
CliMetadataCheck ==
    /\ cli_pc = "metadata_check"
    /\ LET f == cli_meta[metadata_path] IN
       \/ /\ f.st = "absent"
          /\ cli_pc' = "tracklist"
          /\ UNCHANGED cli
       \/ /\ f.st = "partial"
          /\ Abort(cli, "metadata_load")
       \/ /\ f.st = "complete"
          /\ cli' = [cli EXCEPT !.metadata = Some(f.val)]
          /\ cli_pc' = AfterMetadata
    /\ UNCHANGED <<workerVars, runs, cliFsVars, synVars, funVars>>

\* main.py 255-268: the tracklist of the setlist file if --setlist is given
\* (no file: a message and no tracklist), else in show mode that of the
\* video's description, else none.
ObtainedTracklist ==
    IF cli.setlist # None
    THEN IF cli.setlist[1].found
         THEN parse_timestamps_from_description(cli.setlist[1].text)
         ELSE None
    ELSE IF cli.prompt_key = "show"
         THEN parse_timestamps_from_description(cli.video_description)
         ELSE None

\* Mutant: the tracklist is obtained but the run goes on in AI mode.
CliTracklist_AlwaysAi ==
    /\ cli_pc = "tracklist"
    /\ cli' = [cli EXCEPT !.tracklist = ObtainedTracklist]
    /\ cli_pc' = "ai_extract_audio"
    /\ UNCHANGED <<workerVars, runs, cliFsVars, synVars, funVars>>

\* main.py 255-282: the branch between direct mode and AI mode; reading the
\* setlist file may raise another error than FileNotFoundError.
CliTracklist ==
    /\ cli_pc = "tracklist"
    /\ \/ /\ cli.setlist # None
          /\ Abort(cli, "setlist")
       \/ /\ ObtainedTracklist # None
          /\ cli' = [cli EXCEPT !.tracklist = ObtainedTracklist,
                                !.metadata = Some(DirectMetadata(ObtainedTracklist[1]))]
          /\ cli_pc' = "direct_write"
       \/ /\ ObtainedTracklist = None
          /\ cli_pc' = "ai_extract_audio"
          /\ UNCHANGED cli
    /\ UNCHANGED <<workerVars, runs, cliFsVars, synVars, funVars>>

\* main.py 283-285: open(metadata_path, 'w') and json.dump; a failure leaves
\* no file or a part of it.
CliDirectWrite ==
    /\ cli_pc = "direct_write"
    /\ \/ /\ cli_meta' = [cli_meta EXCEPT ![metadata_path] = MetaComplete(cli.metadata[1])]
          /\ cli_pc' = AfterMetadata
          /\ UNCHANGED cli
       \/ /\ \E f \in {MetaAbsent, MetaPartial} :
                cli_meta' = [cli_meta EXCEPT ![metadata_path] = f]
          /\ Abort(cli, "metadata_write")
    /\ UNCHANGED <<workerVars, runs, cli_video, cli_audio, cli_trans, cli_clip, synVars, funVars>>

\* main.py 100-112 extract_audio, called at 292-293 (AI mode: None is fatal)
\* and at 302-303 (captions: None skips the transcription).
CliExtractAudio ==
    /\ cli_pc \in {"ai_extract_audio", "subs_extract_audio"}
    /\ LET ai == cli_pc = "ai_extract_audio" IN
       \/ /\ exists(cli_audio)
          /\ cli' = [cli EXCEPT !.audio_file = Some(1)]
          /\ cli_pc' = IF ai THEN "ai_transcription" ELSE "subs_transcription"
          /\ UNCHANGED cli_audio
       \/ /\ ~exists(cli_audio)
          /\ cli_audio' = Complete(1)
          /\ cli' = [CliCalled("extract_audio") EXCEPT !.audio_file = Some(1)]
          /\ cli_pc' = IF ai THEN "ai_transcription" ELSE "subs_transcription"
       \/ /\ ~exists(cli_audio)
          /\ \E f \in {Absent, Partial} : cli_audio' = f
          /\ IF ai
             THEN Abort(CliCalled("extract_audio"), "audio")
             ELSE /\ cli' = [CliCalled("extract_audio") EXCEPT !.audio_file = None]
                  /\ cli_pc' = "create_video_clips"
    /\ UNCHANGED <<workerVars, runs, cli_video, cli_trans, cli_meta, cli_clip, synVars, funVars>>

\* main.py 294-295 and 304: what the caller does with the result of
\* get_transcription_segments (AI mode: None or an empty list is fatal).
TranscriptionReturned(frame, result) ==
    IF cli_pc = "ai_transcription"
    THEN IF result = None \/ result = Some(0)
         THEN Abort(frame, "transcription")
         ELSE cli' = frame /\ cli_pc' = "ai_generate"
    ELSE /\ cli' = [frame EXCEPT !.transcription_segments_for_subs = result]
         /\ cli_pc' = "create_video_clips"

\* main.py 114-130 get_transcription_segments: a hit is json.load of the
\* file, outside the try block; else whisper transcribes and the segments
\* are written; a failure returns None and leaves no file or a part of it.
CliGetTranscription ==
    /\ cli_pc \in {"ai_transcription", "subs_transcription"}
    /\ \/ /\ cli_trans.st = "partial"
          /\ Abort(cli, "transcription_load")
          /\ UNCHANGED cli_trans
       \/ /\ cli_trans.st = "complete"
          /\ TranscriptionReturned(cli, Some(cli_trans.val))
          /\ UNCHANGED cli_trans
       \/ /\ cli_trans.st = "absent"
          /\ \E n \in 0..MaxSegs :
                /\ cli_trans' = Complete(n)
                /\ TranscriptionReturned(CliCalled("transcribe"), Some(n))
       \/ /\ cli_trans.st = "absent"
          /\ \E f \in {Absent, Partial} : cli_trans' = f
          /\ TranscriptionReturned(CliCalled("transcribe"), None)
    /\ UNCHANGED <<workerVars, runs, cli_video, cli_audio, cli_meta, cli_clip, synVars, funVars>>

\* main.py 132-156 get_or_create_metadata_from_ai, called at 296 when the
\* check at 250 found no metadata file: the model is asked with the prompt
\* and the context and the metadata are written; a failure returns None,
\* which is fatal (298), and leaves no file or a part of it.
CliGenerateContent ==
    /\ cli_pc = "ai_generate"
    /\ \/ /\ \E f \in {MetaAbsent, MetaPartial} :
                cli_meta' = [cli_meta EXCEPT ![metadata_path] = f]
          /\ Abort(CliCalled("generate_content"), "metadata")
       \/ \E n \in 0..MaxClips :
          LET m == AiMetadata(cli.prompt_key, cli.additional_context, n) IN
          /\ cli_meta' = [cli_meta EXCEPT ![metadata_path] = MetaComplete(m)]
          /\ cli' = [CliCalled("generate_content") EXCEPT !.metadata = Some(m)]
          /\ cli_pc' = AfterMetadata
    /\ UNCHANGED <<workerVars, runs, cli_video, cli_audio, cli_trans, cli_clip, synVars, funVars>>

\* main.py 158-166: the source video is opened.
CliCreateVideoClipsStart ==
    /\ cli_pc = "create_video_clips"
    /\ \/ Abort(cli, "render")
       \/ /\ cli' = [cli EXCEPT !.idx = 1]
          /\ cli_pc' = "clip_loop"
    /\ UNCHANGED <<workerVars, runs, cliFsVars, synVars, funVars>>

\* main.py 179: captions are put on a clip if they were asked for and the
\* segment list is not None and not empty.
WithCaptions ==
    /\ cli.generate_with_subtitles
    /\ cli.transcription_segments_for_subs # None
    /\ cli.transcription_segments_for_subs[1] > 0

\* main.py 167-197: one iteration of the loop (a clip whose file exists is
\* skipped, else it is written; a failure returns False, which is fatal at
\* 307), or its end (True is returned and the run is successful).
CliClipLoop ==
    /\ cli_pc = "clip_loop"
    /\ LET cl == cli.metadata[1].clips
           n == cli.idx
       IN
       IF n > Len(cl)
       THEN /\ cli' = [cli EXCEPT !.run_successful = TRUE]
            /\ cli_pc' = "finally"
            /\ UNCHANGED cli_clip
       ELSE LET name == CliClipName(n, cl[n]) IN
            \/ /\ exists(cli_clip[name])
               /\ cli' = [cli EXCEPT !.idx = n + 1]
               /\ UNCHANGED <<cli_pc, cli_clip>>
            \/ /\ ~exists(cli_clip[name])
               /\ cli_clip' = [cli_clip EXCEPT
                                 ![name] = Complete(IF WithCaptions THEN Captioned ELSE Plain)]
               /\ cli' = [CliCalled("write_videofile") EXCEPT !.idx = n + 1]
               /\ UNCHANGED cli_pc
            \/ /\ ~exists(cli_clip[name])
               /\ \E f \in {Absent, Partial} : cli_clip' = [cli_clip EXCEPT ![name] = f]
               /\ Abort(CliCalled("write_videofile"), "render")
    /\ UNCHANGED <<workerVars, runs, cli_video, cli_audio, cli_trans, cli_meta, synVars, funVars>>

\* main.py 315-319 and 199-207 cleanup_temp_files: after a successful run
\* the video, the audio and the transcription are removed.
CliFinally ==
    /\ cli_pc = "finally"
    /\ IF cli.run_successful
       THEN cli_video' = Absent /\ cli_audio' = Absent /\ cli_trans' = Absent
       ELSE UNCHANGED <<cli_video, cli_audio, cli_trans>>
    /\ cli_pc' = "idle"
    /\ cli' = NoCli
    /\ UNCHANGED <<workerVars, runs, cli_meta, cli_clip, synVars, funVars>>

CliNext ==
    \/ \E p \in Prompts, c \in Contexts, subs \in BOOLEAN, sl \in Setlists :
          CliStart(p, c, subs, sl)
    \/ CliDownloadVideoInfo
    \/ CliDownloadVideo
    \/ CliMetadataCheck
    \/ CliTracklist
    \/ CliDirectWrite
    \/ CliExtractAudio
    \/ CliGetTranscription
    \/ CliGenerateContent
    \/ CliCreateVideoClipsStart
    \/ CliClipLoop
    \/ CliFinally

CliSpec == Init /\ [][CliNext]_vars

\* ------------------------------------- the parser and direct mode alone
\* Any description of at most MaxLines lines.
SynInit ==
    /\ syn_pc = "input"
    /\ description \in Descriptions
    /\ tracklist = None
    /\ clips = <<>>

DirectInit == WorkerInit /\ CliInit /\ SynInit /\ TimestampIdle /\ RenderIdle

\* main.py 261, 268: tracklist = parse_timestamps_from_description(...)
ParseDescription ==
    /\ syn_pc = "input"
    /\ tracklist' = parse_timestamps_from_description(description)
    /\ syn_pc' = "parsed"
    /\ UNCHANGED <<workerVars, cliVars, description, clips, funVars>>

\* main.py 270-282: if tracklist: the clips are made from it.
SynthesizeClips ==
    /\ syn_pc = "parsed"
    /\ tracklist # None
    /\ clips' = DirectClips(tracklist[1])
    /\ syn_pc' = "synthesized"
    /\ UNCHANGED <<workerVars, cliVars, description, tracklist, funVars>>

DirectNext == ParseDescription \/ SynthesizeClips

DirectSpec == DirectInit /\ [][DirectNext]_vars
\* ------------------------------------------ timestamp_to_seconds alone
\* Any string of at most MaxFields fields.
TimestampInit ==
    /\ WorkerInit /\ CliInit /\ SynIdle /\ RenderIdle
    /\ ts_str \in TimestampStrings
    /\ seconds = None

\* logic.py 36-43: int() raises ValueError on a field that is no integer;
\* otherwise the value computed from the fields is returned.
CallTimestampToSeconds ==
    /\ ts_str # <<>>
    /\ seconds = None
    /\ seconds' = Some(IF \E i \in 1..Len(ts_str) : ts_str[i] = None
                       THEN ValueError
                       ELSE Returned(timestamp_to_seconds(IntFields(ts_str))))
    /\ UNCHANGED <<workerVars, cliVars, synVars, ts_str, render_args, final_clip>>

TimestampSpec == TimestampInit /\ [][CallTimestampToSeconds]_vars

\* --------------------------------------- the body of the render loop alone
RenderInit ==
    /\ WorkerInit /\ CliInit /\ SynIdle /\ TimestampIdle
    /\ render_args \in RenderArgs
    /\ final_clip = None

\* logic.py 198-219, for a clip whose file does not exist yet.
RenderClip ==
    /\ render_args # NoRender
    /\ final_clip = None
    /\ final_clip' = Some(FinalClip(render_args))
    /\ UNCHANGED <<workerVars, cliVars, synVars, ts_str, seconds, render_args>>

RenderSpec == RenderInit /\ [][RenderClip]_vars
\* ================================================================ claims
\* The worker takes a step of its own.
Moves(w) == pc'[w] # pc[w]

\* The status changes the specification allows (creating the row included).
AllowedTransitions ==
    {<<"NONE", "QUEUED">>, <<"QUEUED", "PROCESSING">>,
     <<"PROCESSING", "COMPLETED">>, <<"PROCESSING", "FAILED">>}

\* C1: every change of a job's persisted status is QUEUED->PROCESSING,
\* PROCESSING->COMPLETED or PROCESSING->FAILED; none is reversed or skipped.
C1_StatusMonotonic ==
    [][\A j \in JobIds :
          status'[j] # status[j] => <<status[j], status'[j]>> \in AllowedTransitions]_vars

\* C2: when a task in which an exception was raised ends, the job's status
\* is FAILED with an error description and no exception has left the task.
C2_FailureRecorded ==
    [][\A w \in Workers :
          (pc[w] = "except" /\ pc'[w] = "done") =>
              /\ task'[w].outcome = "Failed"
              /\ status'[JobOf(w)] = "FAILED"
              /\ result_urls'[JobOf(w)].kind = "error"]_vars

\* The terminal status values an invocation has written.
TerminalWrites(w) ==
    SelectSeq(task[w].writes, LAMBDA s : s \in {"COMPLETED", "FAILED"})

\* C3: a finished invocation has made exactly one terminal status write:
\* COMPLETED if nothing failed, FAILED if something did; never both or none.
C3_ExactlyOneTerminalWrite ==
    \A w \in Workers :
        pc[w] = "done" =>
            /\ Len(TerminalWrites(w)) = 1
            /\ TerminalWrites(w)[1] = "COMPLETED" <=> task[w].failedAt = "none"

\* Where a worker is while run_processing_pipeline runs.
PipelinePcs ==
    {"run_processing_pipeline", "download_video", "downloading", "extract_audio",
     "audio_open", "audio_writing", "get_transcription_segments", "transcribe",
     "transcription_writing", "get_or_create_metadata_from_ai", "generate_content",
     "metadata_writing", "create_video_clips", "clip_loop", "clip_writing",
     "clips_returned"}

\* C4: while the pipeline of a job runs, the invocation has committed
\* PROCESSING and the job's persisted status is not QUEUED.
C4_ProcessingBeforePipeline ==
    \A w \in Workers :
        pc[w] \in PipelinePcs =>
            /\ task[w].writes = <<"PROCESSING">>
            /\ status[JobOf(w)] # "QUEUED"

C4_Witness ==
    \E w \in Workers : pc[w] = "transcribe" /\ status[JobOf(w)] = "PROCESSING"

\* C5: a job becomes COMPLETED, or a COMPLETED job's payload changes, only
\* by the COMPLETED write of an invocation whose pipeline returned, and the
\* payload then is exactly the list the pipeline returned; a COMPLETED job
\* always carries a non-empty list of paths.
C5_CompletedCarriesPipelineResult ==
    /\ [][\A j \in JobIds :
            (status'[j] = "COMPLETED"
               /\ (status[j] # "COMPLETED" \/ result_urls'[j] # result_urls[j])) =>
                \E w \in Workers :
                    /\ pc[w] = "set_completed" /\ pc'[w] = "done"
                    /\ JobOf(w) = j
                    /\ task[w].final_clip_paths # <<>>
                    /\ result_urls'[j] = PathsPayload(task[w].final_clip_paths)]_vars
    /\ [](\A j \in JobIds :
            status[j] = "COMPLETED" =>
                result_urls[j].kind = "paths" /\ result_urls[j].paths # <<>>)

C5_Witness ==
    \E j \in JobIds :
        /\ status[j] = "COMPLETED"
        /\ result_urls[j] = PathsPayload(<<ClipPath(j, 1), ClipPath(j, 2)>>)

\* The external capability adapters: Downloader, Transcriber, SegmentSelector.
AdapterCalls == {"extract_info", "download", "transcribe", "generate_content"}

\* C6: a pipeline call that started with every artifact of the job on disk
\* invokes no external capability adapter.
C6_FullCacheNoAdapter ==
    \A w \in Workers :
        pipeline[w].fullAtStart => pipeline[w].calls \cap AdapterCalls = {}

\* C7: a cached stage that finds its target path returns the stored content
\* and does not invoke its producer, whatever the producer would do; the
\* stored content is what the producing call that wrote it returned.
C7_CacheHitSkipsProducer ==
    [][\A w \in Workers :
          /\ (pc[w] = "extract_audio" /\ exists(fs_audio[VideoOf(w)]) /\ Moves(w)) =>
                /\ pc'[w] = "get_transcription_segments"
                /\ pipeline'[w] = pipeline[w]
                /\ fs_audio' = fs_audio
          /\ (pc[w] = "get_transcription_segments"
                /\ exists(fs_trans[VideoOf(w)]) /\ Moves(w)) =>
                /\ pc'[w] \in {"get_or_create_metadata_from_ai", "except"}
                /\ fs_trans' = fs_trans
                /\ pc'[w] = "get_or_create_metadata_from_ai" =>
                      /\ pipeline'[w].transcription_segments =
                             Some(fs_trans[VideoOf(w)].val)
                      /\ pipeline'[w].calls = pipeline[w].calls
          /\ (pc[w] = "get_or_create_metadata_from_ai"
                /\ exists(fs_meta[JobOf(w)]) /\ Moves(w)) =>
                /\ pc'[w] \in {"create_video_clips", "except"}
                /\ fs_meta' = fs_meta
                /\ pc'[w] = "create_video_clips" =>
                      /\ pipeline'[w].metadata = Some(fs_meta[JobOf(w)].val)
                      /\ pipeline'[w].calls = pipeline[w].calls
          /\ (pc[w] = "transcription_writing"
                /\ pc'[w] = "get_or_create_metadata_from_ai"
                /\ ~OtherWriter("transcription_writing", SameVideo(w))) =>
                fs_trans'[VideoOf(w)] = Complete(pipeline[w].transcription_segments[1])
          /\ (pc[w] = "metadata_writing"
                /\ pc'[w] = "create_video_clips"
                /\ ~OtherWriter("metadata_writing", SameJob(w))) =>
                fs_meta'[JobOf(w)] = Complete(pipeline[w].metadata[1])]_vars

\* A second delivery got the transcription and the metadata from the cache.
C7_Witness ==
    \E w \in Workers :
        /\ pc[w] = "create_video_clips"
        /\ pipeline[w].metadata # None
        /\ pipeline[w].calls \cap {"transcribe", "generate_content"} = {}

\* The steps in which the producer of a cached stage fails, with the file
\* the stage caches its result in.
ProducerFails(w, from, stage) ==
    pc[w] \in from /\ pc'[w] = "except" /\ task'[w].failedAt = stage

\* C8: after the producer of a stage has failed, no cache entry exists at
\* that stage's target path.
C8_FailedProducerLeavesNoEntry ==
    [][\A w \in Workers :
          /\ ProducerFails(w, {"downloading"}, "download") =>
                ~exists(fs_video'[VideoOf(w)])
          /\ ProducerFails(w, {"audio_open", "audio_writing"}, "audio") =>
                ~exists(fs_audio'[VideoOf(w)])
          /\ ProducerFails(w, {"transcribe", "transcription_writing"}, "transcription") =>
                ~exists(fs_trans'[VideoOf(w)])
          /\ ProducerFails(w, {"generate_content", "metadata_writing"}, "metadata") =>
                ~exists(fs_meta'[JobOf(w)])]_vars

\* C9: an existence check on a cache target succeeds only if the file holds
\* the producer's complete result.
C9_NoPartialCacheHit ==
    [][\A w \in Workers :
          Moves(w) =>
              /\ (pc[w] = "extract_audio" /\ exists(fs_audio[VideoOf(w)])) =>
                    fs_audio[VideoOf(w)].st = "complete"
              /\ (pc[w] = "get_transcription_segments" /\ exists(fs_trans[VideoOf(w)])) =>
                    fs_trans[VideoOf(w)].st = "complete"
              /\ (pc[w] = "get_or_create_metadata_from_ai" /\ exists(fs_meta[JobOf(w)])) =>
                    fs_meta[JobOf(w)].st = "complete"]_vars

\* One path per clip of the metadata, in clip order.
AllClipPaths(j, n) == [i \in 1..n |-> ClipPath(j, i)]

\* C10: create_video_clips returns the empty list if rendering threw, and
\* otherwise one path per metadata clip in clip order, never a partial list;
\* the throwing step writes no further clip; the pipeline raises on the
\* empty list.
C10_ClipsAllOrNothing ==
    /\ [](\A w \in Workers :
            pc[w] = "clips_returned" =>
                /\ task[w].failedAt = "render" => task[w].final_clip_paths = <<>>
                /\ task[w].failedAt # "render" =>
                      task[w].final_clip_paths =
                          AllClipPaths(JobOf(w), pipeline[w].metadata[1]))
    /\ [][\A w \in Workers :
            /\ (pc'[w] = "clips_returned" /\ Moves(w) /\ task'[w].failedAt = "render") =>
                  fs_clip' = fs_clip
            /\ (pc[w] = "clips_returned" /\ Moves(w)) =>
                  (pc'[w] = "except" <=> task[w].final_clip_paths = <<>>)]_vars

\* Rendering threw after the first clip file had been written.
C10_Witness ==
    \E w \in Workers :
        /\ pc[w] = "clips_returned"
        /\ task[w].failedAt = "render"
        /\ pipeline[w].created_clips = <<ClipPath(JobOf(w), 1)>>
        /\ fs_clip[JobOf(w)][1].st = "complete"

\* The stage a worker inside run_processing_pipeline is in: 0 the set-up,
\* 1 download, 2 audio extraction, 3 transcription, 4 segment selection,
\* 5 render, 6 the return of the clip list.
Stage(l) ==
    CASE l = "run_processing_pipeline" -> 0
      [] l \in {"download_video", "downloading"} -> 1
      [] l \in {"extract_audio", "audio_open", "audio_writing"} -> 2
      [] l \in {"get_transcription_segments", "transcribe", "transcription_writing"} -> 3
      [] l \in {"get_or_create_metadata_from_ai", "generate_content", "metadata_writing"} -> 4
      [] l \in {"create_video_clips", "clip_loop", "clip_writing"} -> 5
      [] l = "clips_returned" -> 6
      [] OTHER -> 7

\* What the stage that has just returned has handed to the pipeline.
StageDelivered(w, k) ==
    CASE k = 1 -> exists(fs_video'[VideoOf(w)]) /\ "extract_info" \in pipeline'[w].calls
      [] k = 2 -> exists(fs_audio'[VideoOf(w)])
      [] k = 3 -> /\ pipeline'[w].transcription_segments # None
                  /\ pipeline'[w].transcription_segments[1] > 0
      [] k = 4 -> pipeline'[w].metadata # None
      [] OTHER -> TRUE

\* C11: within one run_processing_pipeline invocation the stages run in the
\* order download, audio extraction, transcription, segment selection,
\* render: the invocation is in one stage at a time, it enters the pipeline
\* at its start, and each step stays in the stage, fails, or moves to the
\* next stage, which it does only when the stage has returned its result.
C11_StagesSequential ==
    [][\A w \in Workers :
          Moves(w) =>
              /\ (pc[w] \notin PipelinePcs /\ pc'[w] \in PipelinePcs) =>
                    pc[w] = "set_processing" /\ pc'[w] = "run_processing_pipeline"
              /\ (pc[w] \in PipelinePcs /\ pc'[w] \in PipelinePcs) =>
                    \/ Stage(pc'[w]) = Stage(pc[w])
                    \/ /\ Stage(pc'[w]) = Stage(pc[w]) + 1
                       /\ StageDelivered(w, Stage(pc[w]))
              /\ (pc[w] \in PipelinePcs /\ pc'[w] \notin PipelinePcs) =>
                    \/ pc'[w] = "except"
                    \/ pc[w] = "clips_returned" /\ pc'[w] = "set_completed"]_vars

\* One invocation has gone through every stage, each producer called, and
\* is rendering.
C11_Witness ==
    \E w \in Workers :
        /\ pc[w] = "clip_writing"
        /\ pipeline[w].calls =
               {"extract_info", "download", "extract_audio", "transcribe",
                "generate_content", "write_videofile"}

\* C15: a task message exists only for a job whose record is committed, and
\* carries that record's id and URL; when the message is dispatched the
\* record is already committed with status QUEUED.
C15_RecordBeforeMessage ==
    /\ [](\A m \in queue :
            /\ m.job_id \in JobIds
            /\ status[m.job_id] # "NONE"
            /\ m.youtube_url = job_youtube_url[m.job_id])
    /\ [][\A m \in queue' \ queue :
            /\ status[m.job_id] = "QUEUED"
            /\ m.youtube_url = job_youtube_url[m.job_id]]_vars

\* A message is in the queue while its job is still QUEUED.
C15_Witness ==
    \E m \in queue : status[m.job_id] = "QUEUED" /\ delivered[m.job_id] = 0

\* C16: within one run_processing_pipeline invocation no external capability
\* is executed a second time, and after a failure nothing but the handler
\* runs: no later stage is executed.
C16_NoInternalRetry ==
    /\ [](\A w \in Workers :
            /\ pc[w] = "download_video" => "extract_info" \notin pipeline[w].calls
            /\ pc[w] = "downloading" => "download" \notin pipeline[w].calls
            /\ pc[w] = "audio_open" => "extract_audio" \notin pipeline[w].calls
            /\ pc[w] = "transcribe" => "transcribe" \notin pipeline[w].calls
            /\ pc[w] = "generate_content" => "generate_content" \notin pipeline[w].calls
            /\ task[w].failedAt # "none" => pc[w] \in {"clips_returned", "except", "done"})
    /\ [][\A w \in Workers :
            /\ (pc[w] = "except" /\ Moves(w)) => pc'[w] = "done"
            /\ (pc[w] = "clips_returned" /\ task[w].failedAt # "none" /\ Moves(w)) =>
                  pc'[w] = "except"]_vars

\* The audio extraction failed and the invocation ended with FAILED.
C16_Witness ==
    \E w \in Workers :
        pc[w] = "done" /\ task[w].failedAt = "audio" /\ task[w].outcome = "Failed"

\* The worker takes a step inside the loop of create_video_clips.
LoopStep(w) == pc[w] = "clip_loop" /\ (Moves(w) \/ pipeline'[w] # pipeline[w])

\* C17: in the render loop a segment whose clip file exists is included
\* without being encoded again, a segment whose file is missing is encoded,
\* and a call that ends without a failure returns all clip paths in segment
\* order; so a retry after a failed attempt encodes the missing clips only.
C17_RenderIdempotent ==
    [][\A w \in Workers :
          LET j == JobOf(w)
              n == pipeline[w].idx
          IN
          (LoopStep(w) /\ task'[w].failedAt # "render") =>
              IF n > pipeline[w].metadata[1]
              THEN task'[w].final_clip_paths = AllClipPaths(j, pipeline[w].metadata[1])
              ELSE IF exists(fs_clip[j][n])
                   THEN /\ fs_clip' = fs_clip
                        /\ pipeline'[w].calls = pipeline[w].calls
                        /\ pipeline'[w].created_clips =
                               Append(pipeline[w].created_clips, ClipPath(j, n))
                        /\ pipeline'[w].idx = n + 1
                   ELSE /\ pc'[w] = "clip_writing"
                        /\ fs_clip'[j][n].st = "partial"
                        /\ "write_videofile" \in pipeline'[w].calls]_vars

\* A retry of a failed job has taken the first clip from the disk without
\* encoding it and is about to encode the second, which is missing.
C17_Witness ==
    \E w \in Workers :
        /\ pc[w] = "clip_loop"
        /\ result_urls[JobOf(w)].kind = "error"
        /\ pipeline[w].idx = 2
        /\ pipeline[w].metadata = Some(2)
        /\ pipeline[w].created_clips = <<ClipPath(JobOf(w), 1)>>
        /\ "write_videofile" \notin pipeline[w].calls
        /\ fs_clip[JobOf(w)][1].st = "complete"
        /\ ~exists(fs_clip[JobOf(w)][2])

\* C12: in a run of the script in which a valid tracklist was obtained (from
\* the setlist file, or in show mode without --setlist from the video's
\* description) the metadata are the segments synthesized from it, the
\* SegmentSelector is not invoked, and the Transcriber is invoked only if
\* captions were asked for.
C12_DirectModeSkipsAi ==
    /\ [](cli.tracklist # None =>
            /\ Len(cli.tracklist[1]) >= 2
            /\ cli.metadata = Some(DirectMetadata(cli.tracklist[1]))
            /\ "generate_content" \notin cli.calls
            /\ "transcribe" \in cli.calls => cli.generate_with_subtitles)
    /\ [][(cli_pc = "tracklist" /\ cli_pc' # "tracklist" /\ cli'.failed = "none") =>
            LET fromSetlist ==
                    IF cli.setlist # None /\ cli.setlist[1].found
                    THEN parse_timestamps_from_description(cli.setlist[1].text)
                    ELSE None
                fromDescription ==
                    IF cli.setlist = None /\ cli.prompt_key = "show"
                    THEN parse_timestamps_from_description(cli.video_description)
                    ELSE None
            IN /\ fromSetlist # None =>
                     cli_pc' = "direct_write" /\ cli'.tracklist = fromSetlist
               /\ fromDescription # None =>
                     cli_pc' = "direct_write" /\ cli'.tracklist = fromDescription]_vars

\* A run in direct mode with captions has ended well: the Transcriber was
\* invoked, the SegmentSelector was not.
C12_Witness ==
    /\ cli_pc = "finally"
    /\ cli.run_successful
    /\ cli.tracklist # None
    /\ cli.generate_with_subtitles
    /\ "transcribe" \in cli.calls

\* C13: a run that loads metadata from the cache gets metadata the
\* SegmentSelector made under the run's own prompt preset and extra context.
C13_MetadataKeyedByPromptAndContext ==
    [][(cli_pc = "metadata_check" /\ cli_pc' # "metadata_check"
          /\ cli_meta[metadata_path].st = "complete"
          /\ cli_meta[metadata_path].val.src = "ai") =>
            /\ cli_meta[metadata_path].val.prompt = cli.prompt_key
            /\ cli_meta[metadata_path].val.context = cli.additional_context]_vars

\* C14: a cache artifact of the script (video, audio, transcription,
\* metadata), once completely written, is not deleted or overwritten by any
\* later step.
C14_ArtifactsNeverDeleted ==
    [][/\ cli_video.st = "complete" => cli_video' = cli_video
       /\ cli_audio.st = "complete" => cli_audio' = cli_audio
       /\ cli_trans.st = "complete" => cli_trans' = cli_trans
       /\ \A m \in MetadataNames :
             cli_meta[m].st = "complete" => cli_meta'[m] = cli_meta[m]]_vars

\* C18: in a run with captions asked for, a clip is rendered only after the
\* audio extraction and the transcription for the captions have both
\* succeeded, and the clip carries the captions.
C18_CaptionsNeedTranscription ==
    [][\A name \in CliClipNames :
          (cli.generate_with_subtitles
             /\ cli_clip'[name] # cli_clip[name]
             /\ cli_clip'[name].st = "complete") =>
              /\ cli.audio_file # None
              /\ cli.transcription_segments_for_subs # None
              /\ cli_clip'[name].val = Captioned]_vars

\* The entries of a list are in ascending order of start offset.
SortedByStart(tl) ==
    \A i \in 1..(Len(tl) - 1) : tl[i].start_seconds <= tl[i + 1].start_seconds

\* C19: from a tracklist of n >= 2 entries sorted by start offset direct
\* mode makes n segments; the i-th has the i-th entry's title and start, its
\* end is the next entry's start, and the last segment ends 180 seconds
\* after its start.
C19_DirectSynthesis ==
    syn_pc = "synthesized" =>
        LET tl == tracklist[1]
            n == Len(tl)
        IN /\ n >= 2
           /\ SortedByStart(tl)
           /\ Len(clips) = n
           /\ \A i \in 1..n :
                 /\ clips[i].title = tl[i].title
                 /\ clips[i].start_s = tl[i].start_seconds
                 /\ i < n => clips[i].end_s = tl[i + 1].start_seconds
           /\ clips[n].end_s = tl[n].start_seconds + 180

\* The tracklist [{0, A}, {100, B}, {250, C}], found in a description that
\* lists it out of order, gave [{A, 0, 100}, {B, 100, 250}, {C, 250, 430}].
C19_Witness ==
    /\ syn_pc = "synthesized"
    /\ description[1].ts = <<0, 4, 10>>
    /\ clips = <<[title |-> <<"A">>, start_s |-> 0, end_s |-> 100],
                 [title |-> <<"B">>, start_s |-> 100, end_s |-> 250],
                 [title |-> <<"C">>, start_s |-> 250, end_s |-> 430]>>

\* C20: every segment direct mode makes from a tracklist the parser returns
\* ends after it starts.
C20_SegmentEndAfterStart ==
    syn_pc = "synthesized" =>
        \A i \in 1..Len(clips) : clips[i].end_s > clips[i].start_s

\* The lines of a description that look like a tracklist line: those a
\* pattern matches.
TimestampLines(text) == {i \in 1..Len(text) : text[i].grammar # "none"}

\* C21: the parser returns none or a list of at least two entries in
\* ascending order of start offset; a description with fewer than two
\* timestamp-like lines gives none, and a line the title-then-timestamp
\* grammar has captured is not added again by the timestamp-then-title
\* grammar: the list has at most one entry for each such line.
C21_ParserResult ==
    syn_pc # "input" =>
        /\ tracklist # None =>
              /\ Len(tracklist[1]) >= 2
              /\ SortedByStart(tracklist[1])
              /\ Len(tracklist[1]) <= Cardinality(TimestampLines(description))
        /\ Cardinality(TimestampLines(description)) < 2 => tracklist = None

\* C22: timestamp_to_seconds returns h*3600 + m*60 + s for three integer
\* fields and m*60 + s for two, and a string with any other number of
\* fields is a hard error, not a returned value.
C22_TimestampToSeconds ==
    seconds # None =>
        LET r == seconds[1]
            n == Len(ts_str)
            integers == \A i \in 1..n : ts_str[i] # None
            f(i) == ts_str[i][1]
        IN /\ (n = 3 /\ integers) =>
                 (~r.raised /\ r.value = f(1) * 3600 + f(2) * 60 + f(3))
           /\ (n = 2 /\ integers) => (~r.raised /\ r.value = f(1) * 60 + f(2))
           /\ n \notin {2, 3} => r.raised

\* The transcription segment whose span lies inside the range from..to.
Inside(seg, from, to) == from <= seg.start /\ seg.end <= to

\* How often x occurs in the sequence q.
Count(x, q) == Cardinality({i \in 1..Len(q) : q[i] = x})

\* C23: the rendered range starts at the segment's start and ends at
\* min(D, end + 1) with captions and at the segment's end, no buffer added,
\* without (never past the source's end); the captions laid over it are
\* exactly the transcription segments whose span lies inside the rendered
\* range, in their order, each shown from seg.start - start to
\* seg.end - start.
C23_RenderRange ==
    final_clip # None =>
        LET a == render_args
            c == final_clip[1]
            captions == [i \in 1..Len(c.subtitle_clips) |-> c.subtitle_clips[i].segment]
        IN /\ c.start = a.start_s
           /\ a.with_subtitles =>
                 /\ a.end_s + 1 <= a.video_duration => c.end = a.end_s + 1
                 /\ a.end_s + 1 > a.video_duration => c.end = a.video_duration
                 /\ \A seg \in TranscriptSegments :
                       Count(seg, captions) =
                           IF Inside(seg, c.start, c.end) THEN Count(seg, a.segments) ELSE 0
                 /\ \A i \in 1..Len(c.subtitle_clips) :
                       LET t == c.subtitle_clips[i] IN
                       /\ t.start = t.segment.start - a.start_s
                       /\ t.start + t.duration = t.segment.end - a.start_s
           /\ ~a.with_subtitles =>
                 /\ a.end_s <= a.video_duration => c.end = a.end_s
                 /\ a.end_s > a.video_duration => c.end = a.video_duration
                 /\ c.subtitle_clips = <<>>

\* A 500-second source and the segment 10..20 with captions on: the range
\* is 10..21, and the transcription segment 15..21, inside it thanks to the
\* buffer, is shown from 5 to 11.
C23_Witness ==
    /\ final_clip # None
    /\ render_args.video_duration = 500
    /\ render_args.start_s = 10 /\ render_args.end_s = 20
    /\ render_args.with_subtitles
    /\ final_clip[1].start = 10 /\ final_clip[1].end = 21
    /\ \E i \in 1..Len(final_clip[1].subtitle_clips) :
          final_clip[1].subtitle_clips[i] =
              [segment |-> [start |-> 15, end |-> 21], start |-> 5, duration |-> 6]

\* C24: the stage cache is not safe under concurrency.  Nothing makes a
\* worker wait for another one: a worker at the cache check of the
\* transcription that finds the file missing can go on to the producer, a
\* worker at the producer can run it, and a worker that has run it can
\* write the file, whatever the other workers are doing.  (The witness is
\* the interleaving in which two workers do all of it for the same video.)
C24_CacheCheckTakesNoLock ==
    \A w \in Workers :
        /\ (pc[w] = "get_transcription_segments" /\ ~exists(fs_trans[VideoOf(w)])) =>
              ENABLED (GetTranscriptionCheck(w) /\ pc'[w] = "transcribe")
        /\ pc[w] = "transcribe" =>
              ENABLED (Transcribe(w) /\ pc'[w] = "transcription_writing")
        /\ pc[w] = "transcription_writing" =>
              ENABLED (TranscriptionWriteEnd(w) /\ fs_trans'[VideoOf(w)].st = "complete")

\* Two workers on the same video have both found the transcription missing
\* and both run the Transcriber, and both have the file open for writing.
C24_Witness ==
    \E w \in Workers : \E o \in SameVideo(w) :
        /\ pc[w] = "transcription_writing" /\ pc[o] = "transcription_writing"
        /\ "transcribe" \in pipeline[w].calls
        /\ "transcribe" \in pipeline[o].calls

\* A stage of the running script has failed: an exception has ended the try
\* block, or the audio extraction or the transcription done for the
\* captions has returned None.
CliStageFailed ==
    \/ cli.failed # "none"
    \/ /\ cli_pc \in {"create_video_clips", "clip_loop", "finally"}
       /\ cli.generate_with_subtitles
       /\ (cli.audio_file = None \/ cli.transcription_segments_for_subs = None)

\* C25: a run of the script in which a stage has failed deletes nothing:
\* every file of the video's folder that is there stays there, the metadata
\* files included, so that the next run finds it.
C25_FailedRunDeletesNothing ==
    [][CliStageFailed =>
          /\ exists(cli_video) => exists(cli_video')
          /\ exists(cli_audio) => exists(cli_audio')
          /\ exists(cli_trans) => exists(cli_trans')
          /\ \A m \in MetadataNames : exists(cli_meta[m]) => exists(cli_meta'[m])
          /\ \A c \in CliClipNames : exists(cli_clip[c]) => exists(cli_clip'[c])]_vars

\* C26: while a job's status is COMPLETED every path of its result names a
\* clip file that is completely encoded.
C26_CompletedClipsEncoded ==
    \A j \in JobIds :
        status[j] = "COMPLETED" =>
            \A i \in 1..Len(result_urls[j].paths) :
                fs_clip[j][result_urls[j].paths[i][2]].st = "complete"

\* C27: no cache entry holds a result the pipeline treats as fatal: there
\* is no transcription file with an empty segment list and no metadata file
\* with an empty "clips" list, which the next invocation would load and
\* fail on without calling the adapter.
C27_NoFatalResultCached ==
    /\ \A v \in VideoIds : ~(fs_trans[v].st = "complete" /\ fs_trans[v].val = 0)
    /\ \A j \in JobIds : ~(fs_meta[j].st = "complete" /\ fs_meta[j].val = 0)

\* C28: with workers that keep running, every job whose message has been
\* delivered eventually has the status COMPLETED or FAILED.
C28_EventuallyTerminal ==
    \A j \in JobIds :
        (delivered[j] > 0) ~> (status[j] \in {"COMPLETED", "FAILED"})
====
